---- MODULE Spec2Model ----
(***************************************************************************)
(* Model of the two GitHub Action entry points of devbird-action:          *)
(*   prepare      (src/unnamed/part_000, built as src/bin/prepare.ts)      *)
(*   postprocess  (src/src/bin/postprocess.ts)                             *)
(* Each run is one process.  Every action below is one synchronous chunk   *)
(* of the code between two awaits; `effects` records, in program order,    *)
(* everything the run does to the outside world (log lines, subprocesses,  *)
(* HTTP requests, outputs, setSecret/exportVariable, setFailed).           *)
(*                                                                         *)
(* Environment assumed: the GitHub Actions runner (GITHUB_REPOSITORY and   *)
(* GITHUB_OUTPUT are set, so github.context.repo and core.setOutput do     *)
(* not throw).                                                             *)
(***************************************************************************)
EXTENDS Integers, Sequences, FiniteSets, TLC

VARIABLES prog, pc, status, inputs, effects, githubToken, statusCode, body,
          linkBody, pcLink, linkStatusCode, pcScan, scanStatusCode,
          planFileList, readOK, idx, listing, branches, branchError, branchBody

vars == <<prog, pc, status, inputs, effects, githubToken, statusCode, body,
          linkBody, pcLink, linkStatusCode, pcScan, scanStatusCode,
          planFileList, readOK, idx, listing, branches, branchError, branchBody>>

(* ---------------------------- bounds ----------------------------------- *)
MaxPlanFiles == 2

(* ------------------------- input domains ------------------------------- *)
\* An input value is a sequence of chunks; the chunk " " is whitespace.
Space == " "
TokenValues == {<<>>, <<Space>>, <<"t">>, <<Space, "t">>}
ModelValues == {<<>>, <<"m">>}
ModeValues == {<<>>, <<"plan">>, <<"plan", Space>>, <<"develop">>, <<"other">>}

NoInputs ==
  [autodev_workflow_execution_token |-> <<>>,
   devbird_workflow_execution_token |-> <<>>,
   delino_access_token |-> <<>>,
   agent |-> <<>>,
   agent_model |-> <<>>,
   devbird_mode |-> <<>>,
   base_branch |-> <<>>]

\* Branch names are sequences of characters.
Main == <<"m", "a", "i", "n">>
Dev == <<"d", "e", "v">>
DotBase == <<"v", ".", "0">>
Lookalike == <<"v", "x", "0">>
Feature(i) == <<"f">> \o [k \in 1..i |-> "x"]
BaseValues == {<<>>, Dev, DotBase}

\* head -20
HeadLimit == 20

\* Outputs of `git branch --format='%(refname:short)'`, one entry per line.
BranchListings ==
  { <<>>,
    <<Main, Feature(1), Feature(2)>>,
    <<Feature(1), DotBase, Lookalike, Dev>>,
    <<Main>> \o [i \in 1..HeadLimit |-> Feature(i)],
    [i \in 1..(HeadLimit + 1) |-> Feature(i)] \o <<Main, Dev>> }

StatusCodes == {200, 500}

\* Response bodies: non-JSON text, the JSON value null, or a JSON object.
Bodies ==
  {[kind |-> "text", success |-> FALSE, githubToken |-> <<>>],
   [kind |-> "null", success |-> FALSE, githubToken |-> <<>>]}
  \cup [kind : {"object"}, success : BOOLEAN, githubToken : {<<>>, <<"ghs">>}]

\* Value of a body variable before any body has been read.
NoBody == [kind |-> "none", success |-> FALSE, githubToken |-> <<>>]

PlainBodies == {b \in Bodies : b.githubToken = <<>>}

(* --------------------------- library ----------------------------------- *)
RECURSIVE trimStart(_)
trimStart(s) ==
  IF s # <<>> /\ Head(s) = Space THEN trimStart(Tail(s)) ELSE s

RECURSIVE trimEnd(_)
trimEnd(s) ==
  IF s # <<>> /\ s[Len(s)] = Space THEN trimEnd(SubSeq(s, 1, Len(s) - 1)) ELSE s

trim(s) == trimEnd(trimStart(s))

\* Mutant: `required` is not enforced.
getInput_NotRequired(env, name, required) ==
  [threw |-> FALSE, value |-> trim(env[name]), message |-> <<>>]

\* core.getInput(name, {required}): throws when required and the raw value
\* is empty, otherwise returns the raw value trimmed.
getInput(env, name, required) ==
  IF required /\ env[name] = <<>>
    THEN [threw |-> TRUE, value |-> <<>>,
          message |-> <<"Input required and not supplied: ", name>>]
    ELSE [threw |-> FALSE, value |-> trim(env[name]), message |-> <<>>]

\* JSON.parse(body) followed by a property read of the result.
JSONparse(b) ==
  IF b.kind = "text" THEN [threw |-> TRUE, message |-> <<"SyntaxError">>]
  ELSE IF b.kind = "null" THEN [threw |-> TRUE, message |-> <<"TypeError">>]
  ELSE [threw |-> FALSE, message |-> <<>>]

(* --------------------------- effects ----------------------------------- *)
Ev(ev, what, file, data) == [ev |-> ev, what |-> what, file |-> file, data |-> data]
Info(what) == Ev("info", what, 0, <<>>)
Warning(what) == Ev("warning", what, 0, <<>>)
Post(what) == Ev("post", what, 0, <<>>)
\* A request with `Authorization: Bearer <token>`.
PostAuth(what, file, token) == Ev("post", what, file, token)
SetOutput(name, value) == Ev("setOutput", name, 0, value)
SetFailed(msg) == Ev("setFailed", "setFailed", 0, msg)

Count(ev, what) ==
  Cardinality({i \in 1..Len(effects) : effects[i].ev = ev /\ effects[i].what = what})
CountFile(ev, what, f) ==
  Cardinality({i \in 1..Len(effects) :
                 effects[i].ev = ev /\ effects[i].what = what /\ effects[i].file = f})
Did(ev, what) == \E i \in 1..Len(effects) : effects[i].ev = ev /\ effects[i].what = what
FirstIdx(ev, what) ==
  CHOOSE i \in 1..Len(effects) :
    /\ effects[i].ev = ev /\ effects[i].what = what
    /\ \A j \in 1..(i - 1) : ~(effects[j].ev = ev /\ effects[j].what = what)

Init ==
  /\ prog = "none"
  /\ pc = "init"
  /\ status = "running"
  /\ inputs = NoInputs
  /\ effects = <<>>
  /\ githubToken = <<>>
  /\ statusCode = 0
  /\ body = NoBody
  /\ linkBody = NoBody
  /\ pcLink = "idle"
  /\ linkStatusCode = 0
  /\ pcScan = "idle"
  /\ scanStatusCode = 0
  /\ planFileList = <<>>
  /\ readOK = <<>>
  /\ idx = 0
  /\ listing = <<>>
  /\ branches = <<>>
  /\ branchError = "none"
  /\ branchBody = NoBody

BranchVars == <<listing, branches, branchError, branchBody>>
PostVars == <<pcLink, pcScan, scanStatusCode, planFileList, readOK, idx, BranchVars>>

(* ============================ prepare ================================== *)
\* Locals of prepare's run(), as functions of the inputs.
PrepWET == getInput(inputs, "autodev_workflow_execution_token", TRUE).value
PrepDAT == getInput(inputs, "delino_access_token", FALSE).value
PrepAgent == getInput(inputs, "agent", TRUE).value
PrepAgentModel == getInput(inputs, "agent_model", FALSE).value

\* Mutant: the link step only looks at the access token.
PrepareLinks_AccessTokenOnly(delinoAccessToken, workflowExecutionToken) ==
  delinoAccessToken # <<>>

\* Mutant: the link step runs whenever there is a workflow token.
PrepareLinks_WorkflowTokenOnly(delinoAccessToken, workflowExecutionToken) ==
  workflowExecutionToken # <<>>

\* Condition of the link step.
PrepareLinks(delinoAccessToken, workflowExecutionToken) ==
  delinoAccessToken # <<>> /\ workflowExecutionToken # <<>>

\* Static outputs, in publication order.
PrepareOutputs(tok) ==
  << SetOutput("workflow_execution_token", PrepWET),
     SetOutput("agent", PrepAgent),
     SetOutput("agent_model", PrepAgentModel),
     SetOutput("githubToken_obtained", IF tok # <<>> THEN <<"true">> ELSE <<"false">>) >>

\* Mutant: the link step is moved in front of the publication of the outputs.
PrepareTail_LinkFirst(e, tok) ==
  LET e1 == e \o <<Info("preparing"), Info("repository"), Info("base_branch")>>
  IN IF PrepareLinks(PrepDAT, PrepWET)
       THEN [effects |-> e1 \o <<Info("link_start"), PostAuth("link", 0, PrepDAT)>> \o PrepareOutputs(tok),
             pc |-> "await_link_post", status |-> "running"]
       ELSE [effects |-> e1 \o PrepareOutputs(tok) \o <<Info("complete")>>,
             pc |-> "done", status |-> "success"]

\* The synchronous code from the end of the OIDC try/catch up to the
\* link request or the end of run().
PrepareTail(e, tok) ==
  LET e1 == e \o <<Info("preparing"), Info("repository"), Info("base_branch")>>
                \o PrepareOutputs(tok)
  IN IF PrepareLinks(PrepDAT, PrepWET)
       THEN [effects |-> e1 \o <<Info("link_start"), PostAuth("link", 0, PrepDAT)>>,
             pc |-> "await_link_post", status |-> "running"]
       ELSE [effects |-> e1 \o <<Info("complete")>>,
             pc |-> "done", status |-> "success"]

\* catch (oidcError)
OidcCatch(e, err) ==
  e \o <<Info("oidc_unavailable"), Ev("debug", "oidc_error", 0, err)>>

ApplyTail(t) ==
  /\ effects' = t.effects
  /\ pc' = t.pc
  /\ status' = t.status

\* run() up to `await core.getIDToken()`.
PrepareRun ==
  /\ pc = "init"
  /\ \E wet \in TokenValues, dat \in TokenValues, ag \in TokenValues, am \in ModelValues :
       LET env == [NoInputs EXCEPT !.autodev_workflow_execution_token = wet,
                                   !.delino_access_token = dat,
                                   !.agent = ag,
                                   !.agent_model = am]
           r1 == getInput(env, "autodev_workflow_execution_token", TRUE)
           r2 == getInput(env, "agent", TRUE)
       IN /\ inputs' = env
          /\ prog' = "prepare"
          /\ IF r1.threw
               THEN /\ effects' = <<SetFailed(r1.message)>>
                    /\ pc' = "done" /\ status' = "failed"
             ELSE IF r2.threw
               THEN /\ effects' = <<SetFailed(r2.message)>>
                    /\ pc' = "done" /\ status' = "failed"
             ELSE /\ effects' = <<Info("oidc_request"), Ev("getIDToken", "oidc", 0, <<>>)>>
                  /\ pc' = "await_oidc" /\ status' = "running"
  /\ UNCHANGED <<githubToken, statusCode, body, linkStatusCode, linkBody>>
  /\ UNCHANGED PostVars

\* getIDToken settles: rejected, an empty token, or a token.
PrepareOidcSettled ==
  /\ prog = "prepare" /\ pc = "await_oidc"
  /\ \E outcome \in {"throw", "empty", "token"} :
       CASE outcome = "throw" -> ApplyTail(PrepareTail(OidcCatch(effects, <<"oidc">>), githubToken))
         [] outcome = "empty" -> ApplyTail(PrepareTail(effects, githubToken))
         [] outcome = "token" ->
              /\ effects' = effects \o <<Info("oidc_obtained"), Post("exchange")>>
              /\ pc' = "await_exchange_post"
              /\ status' = status
  /\ UNCHANGED <<prog, inputs, githubToken, statusCode, body, linkStatusCode, linkBody>>
  /\ UNCHANGED PostVars

\* http.post of the exchange settles.
PrepareExchangePostSettled ==
  /\ prog = "prepare" /\ pc = "await_exchange_post"
  /\ \/ /\ ApplyTail(PrepareTail(OidcCatch(effects, <<"network">>), githubToken))
        /\ UNCHANGED statusCode
     \/ \E sc \in StatusCodes :
          /\ statusCode' = sc
          /\ pc' = "await_exchange_body"
          /\ UNCHANGED <<effects, status>>
  /\ UNCHANGED <<prog, inputs, githubToken, body, linkStatusCode, linkBody>>
  /\ UNCHANGED PostVars

\* Mutant: success is accepted without looking at githubToken.
ExchangeResult_NoTokenCheck(e, sc, b) ==
  IF sc = 200
    THEN IF JSONparse(b).threw
           THEN [effects |-> OidcCatch(e, JSONparse(b).message), githubToken |-> <<>>]
         ELSE IF b.success
           THEN [effects |-> e \o <<Info("exchange_ok"),
                                    Ev("setSecret", "githubToken", 0, b.githubToken),
                                    Ev("exportVariable", "githubToken", 0, b.githubToken),
                                    SetOutput("github_token", b.githubToken)>>,
                 githubToken |-> b.githubToken]
         ELSE [effects |-> e \o <<Ev("warning", "exchange_failed", 0, b.githubToken)>>,
               githubToken |-> <<>>]
    ELSE [effects |-> e \o <<Warning("exchange_http")>>, githubToken |-> <<>>]

\* Lines 54-72: what the exchange response does to githubToken and effects.
ExchangeResult(e, sc, b) ==
  IF sc = 200
    THEN IF JSONparse(b).threw
           THEN [effects |-> OidcCatch(e, JSONparse(b).message), githubToken |-> <<>>]
         ELSE IF b.success /\ b.githubToken # <<>>
           THEN [effects |-> e \o <<Info("exchange_ok"),
                                    Ev("setSecret", "githubToken", 0, b.githubToken),
                                    Ev("exportVariable", "githubToken", 0, b.githubToken),
                                    SetOutput("github_token", b.githubToken)>>,
                 githubToken |-> b.githubToken]
         ELSE [effects |-> e \o <<Ev("warning", "exchange_failed", 0, b.githubToken)>>,
               githubToken |-> <<>>]
    ELSE [effects |-> e \o <<Warning("exchange_http")>>, githubToken |-> <<>>]

\* response.readBody() of the exchange settles.
PrepareExchangeBodySettled ==
  /\ prog = "prepare" /\ pc = "await_exchange_body"
  /\ \/ /\ ApplyTail(PrepareTail(OidcCatch(effects, <<"network">>), githubToken))
        /\ UNCHANGED <<githubToken, body>>
     \/ \E b \in Bodies :
          LET r == ExchangeResult(effects, statusCode, b)
          IN /\ body' = b
             /\ githubToken' = r.githubToken
             /\ ApplyTail(PrepareTail(r.effects, r.githubToken))
  /\ UNCHANGED <<prog, inputs, statusCode, linkStatusCode, linkBody>>
  /\ UNCHANGED PostVars

\* http.post of the link request settles (prepare).
PrepareLinkPostSettled ==
  /\ prog = "prepare" /\ pc = "await_link_post"
  /\ \/ /\ effects' = effects \o <<Warning("link_error"), Info("complete")>>
        /\ pc' = "done" /\ status' = "success"
        /\ UNCHANGED linkStatusCode
     \/ \E sc \in StatusCodes :
          /\ linkStatusCode' = sc
          /\ pc' = "await_link_body"
          /\ UNCHANGED <<effects, status>>
  /\ UNCHANGED <<prog, inputs, githubToken, statusCode, body, linkBody>>
  /\ UNCHANGED PostVars

\* Lines 114-128: log line produced by the link response in prepare.
PrepareLinkResult(sc, b) ==
  IF sc = 200
    THEN IF JSONparse(b).threw THEN Warning("link_error")
         ELSE IF b.success THEN Info("link_ok")
         ELSE Warning("link_failed")
    ELSE Warning("link_http")

\* response.readBody() of the link request settles (prepare).
PrepareLinkBodySettled ==
  /\ prog = "prepare" /\ pc = "await_link_body"
  /\ \/ /\ effects' = effects \o <<Warning("link_error"), Info("complete")>>
        /\ UNCHANGED linkBody
     \/ \E b \in PlainBodies :
          /\ linkBody' = b
          /\ effects' = effects \o <<PrepareLinkResult(linkStatusCode, b), Info("complete")>>
  /\ pc' = "done" /\ status' = "success"
  /\ UNCHANGED <<prog, inputs, githubToken, statusCode, body, linkStatusCode>>
  /\ UNCHANGED PostVars

(* ========================== postprocess ================================ *)
\* Locals of postprocess's run(), as functions of the inputs.
PostWET == getInput(inputs, "devbird_workflow_execution_token", TRUE).value
PostDAT == getInput(inputs, "delino_access_token", TRUE).value

\* devbirdMode = getInput("devbird_mode") || "develop"
devbirdModeOf(env) ==
  IF getInput(env, "devbird_mode", FALSE).value = <<>>
    THEN <<"develop">>
    ELSE getInput(env, "devbird_mode", FALSE).value

\* Mutant: only "develop" selects branch detection.
ScanFor_PlanUnlessDevelop(devbirdMode) ==
  IF devbirdMode = <<"develop">> THEN {"branches"} ELSE {"plan"}

\* Lines 214-220: which scan is started beside linkGitHubAction().
ScanFor(devbirdMode) ==
  IF devbirdMode = <<"plan">> THEN {"plan"} ELSE {"branches"}

\* The for loop of uploadPlanFiles from file i on, up to the next await
\* (the http.post of a file that could be read) or the end of the list.
RECURSIVE PlanLoop(_, _, _, _, _)
PlanLoop(e, files, ok, i, tok) ==
  IF i > Len(files)
    THEN [effects |-> e, pcScan |-> "resolved", idx |-> i]
  ELSE IF ok[i]
    THEN [effects |-> e \o <<Ev("info", "plan_found", files[i], <<>>),
                             Ev("exec", "cat", files[i], <<>>),
                             PostAuth("plan", files[i], tok)>>,
          pcScan |-> "await_post", idx |-> i]
  ELSE PlanLoop(e \o <<Ev("info", "plan_found", files[i], <<>>),
                       Ev("exec", "cat", files[i], <<>>),
                       Ev("warning", "plan_file_error", files[i], <<>>)>>,
                files, ok, i + 1, tok)

\* uploadPlanFiles() up to its first await.
uploadPlanFilesStart(e, lsOK, files, ok, tok) ==
  LET e1 == e \o <<Info("detecting_plans"), Ev("exec", "ls", 0, <<>>)>>
  IN IF ~lsOK
       THEN [effects |-> e1 \o <<Warning("plan_detect_error")>>,
             pcScan |-> "resolved", idx |-> 0]
     ELSE IF files = <<>>
       THEN [effects |-> e1 \o <<Info("no_plan_files")>>,
             pcScan |-> "resolved", idx |-> 0]
     ELSE PlanLoop(e1, files, ok, 1, tok)

\* baseBranch || "main"
defaultBaseBranchOf(baseBranch) == IF baseBranch = <<>> THEN Main ELSE baseBranch

\* grep '^pat$' on one line: pat is a basic regular expression, in which
\* "." matches any single character (the alphabet has no other special one).
GrepMatches(pat, line) ==
  /\ Len(pat) = Len(line)
  /\ \A k \in 1..Len(pat) : pat[k] = "." \/ pat[k] = line[k]

\* grep -v '^pat$'
RECURSIVE grepV(_, _)
grepV(lines, pat) ==
  IF lines = <<>> THEN <<>>
  ELSE IF GrepMatches(pat, Head(lines)) THEN grepV(Tail(lines), pat)
  ELSE <<Head(lines)>> \o grepV(Tail(lines), pat)

\* head -n
head(lines, n) == SubSeq(lines, 1, IF Len(lines) < n THEN Len(lines) ELSE n)

\* .split("\n").map((b) => b.trim()).filter((b) => b.length > 0)
RECURSIVE trimAndFilter(_)
trimAndFilter(lines) ==
  IF lines = <<>> THEN <<>>
  ELSE IF trim(Head(lines)) = <<>> THEN trimAndFilter(Tail(lines))
  ELSE <<trim(Head(lines))>> \o trimAndFilter(Tail(lines))

\* Lines 75-87: the value of `branches` for a listing and a base branch.
branchesOf(lines, baseBranch) ==
  trimAndFilter(head(grepV(lines, defaultBaseBranchOf(baseBranch)), HeadLimit))

\* Mutant: an empty branch list is not sent.
detectBranchesStart_SkipEmpty(e, execOK, brs, tok) ==
  LET e1 == e \o <<Info("detecting_branches"), Ev("exec", "git_branch", 0, <<>>)>>
  IN IF ~execOK
       THEN [effects |-> e1 \o <<Warning("branch_error")>>,
             pcScan |-> "resolved", idx |-> 0, branches |-> <<>>, branchError |-> "exec"]
     ELSE IF brs = <<>>
       THEN [effects |-> e1 \o <<Info("branches_found")>>,
             pcScan |-> "resolved", idx |-> 0, branches |-> brs, branchError |-> "none"]
     ELSE [effects |-> e1 \o <<Info("branches_found"), PostAuth("branches", 0, tok)>>,
           pcScan |-> "await_post", idx |-> 0, branches |-> brs, branchError |-> "none"]

\* detectBranches() up to its first await; execOK is false when execSync
\* throws, brs is the branch list computed from the command's output.
detectBranchesStart(e, execOK, brs, tok) ==
  LET e1 == e \o <<Info("detecting_branches"), Ev("exec", "git_branch", 0, <<>>)>>
  IN IF ~execOK
       THEN [effects |-> e1 \o <<Warning("branch_error")>>,
             pcScan |-> "resolved", idx |-> 0, branches |-> <<>>, branchError |-> "exec"]
       ELSE [effects |-> e1 \o <<Info("branches_found"), PostAuth("branches", 0, tok)>>,
             pcScan |-> "await_post", idx |-> 0, branches |-> brs, branchError |-> "none"]

\* linkGitHubAction() up to its first await.
linkGitHubActionStart(e, tok) == e \o <<Info("link_start"), PostAuth("link", 0, tok)>>

\* `await Promise.all([...])` and the catch of run(): the continuation of
\* run() after one of the two operations has moved to (pl, ps).  Promise.all
\* rejects as soon as one promise rejects and fulfils when both fulfilled.
AwaitAll(e, pl, ps, msg) ==
  IF pc # "await_all"
    THEN [effects |-> e, pc |-> pc, status |-> status]
  ELSE IF pl = "rejected"
    THEN [effects |-> e \o <<SetFailed(msg)>>, pc |-> "done", status |-> "failed"]
  ELSE IF pl = "resolved" /\ ps = "resolved"
    THEN [effects |-> e, pc |-> "done", status |-> "success"]
  ELSE [effects |-> e, pc |-> pc, status |-> status]

\* run() up to `await Promise.all(...)`.
PostprocessRun ==
  /\ pc = "init"
  /\ \E wet \in TokenValues, dat \in TokenValues, mode \in ModeValues,
        base \in BaseValues, lines \in BranchListings,
        n \in 0..MaxPlanFiles, execOK \in BOOLEAN :
     \E ok \in [1..n -> BOOLEAN] :
       LET env == [NoInputs EXCEPT !.devbird_workflow_execution_token = wet,
                                   !.delino_access_token = dat,
                                   !.base_branch = base,
                                   !.devbird_mode = mode]
           baseBranch == getInput(env, "base_branch", FALSE).value
           r1 == getInput(env, "devbird_workflow_execution_token", TRUE)
           r2 == getInput(env, "delino_access_token", TRUE)
           kinds == ScanFor(devbirdModeOf(env))
           files == [i \in 1..n |-> i]
           e0 == <<Info(IF "plan" \in kinds THEN "plan_mode" ELSE "develop_mode")>>
           e1 == linkGitHubActionStart(e0, r2.value)
           s1 == IF "plan" \in kinds
                   THEN uploadPlanFilesStart(e1, execOK, files, ok, r2.value)
                   ELSE [effects |-> e1, pcScan |-> "resolved", idx |-> 0]
           s2 == IF "branches" \in kinds
                   THEN detectBranchesStart(s1.effects, execOK,
                                            branchesOf(lines, baseBranch), r2.value)
                   ELSE [effects |-> s1.effects, pcScan |-> s1.pcScan, idx |-> s1.idx,
                         branches |-> <<>>, branchError |-> "none"]
       IN /\ inputs' = env
          /\ prog' = "postprocess"
          /\ IF r1.threw
               THEN /\ effects' = <<SetFailed(r1.message)>>
                    /\ pc' = "done" /\ status' = "failed"
                    /\ UNCHANGED PostVars
             ELSE IF r1.value = <<>>
               THEN /\ effects' = <<Warning("no_task_token")>>
                    /\ pc' = "done" /\ status' = "success"
                    /\ UNCHANGED PostVars
             ELSE IF r2.threw
               THEN /\ effects' = <<SetFailed(r2.message)>>
                    /\ pc' = "done" /\ status' = "failed"
                    /\ UNCHANGED PostVars
             ELSE /\ effects' = s2.effects
                  /\ pc' = "await_all" /\ status' = "running"
                  /\ pcLink' = "await_post"
                  /\ pcScan' = s2.pcScan
                  /\ idx' = s2.idx
                  /\ planFileList' = IF "plan" \in kinds /\ execOK THEN files ELSE <<>>
                  /\ readOK' = IF "plan" \in kinds /\ execOK THEN ok ELSE <<>>
                  /\ listing' = IF "branches" \in kinds /\ execOK THEN lines ELSE <<>>
                  /\ branches' = s2.branches
                  /\ branchError' = s2.branchError
                  /\ UNCHANGED <<scanStatusCode, branchBody>>
  /\ UNCHANGED <<githubToken, statusCode, body, linkStatusCode, linkBody>>

ApplyAwaitAll(a) ==
  /\ effects' = a.effects
  /\ pc' = a.pc
  /\ status' = a.status

\* http.post of linkGitHubAction settles.
LinkPostSettled ==
  /\ prog = "postprocess" /\ pcLink = "await_post"
  /\ \/ /\ pcLink' = "rejected"
        /\ ApplyAwaitAll(AwaitAll(effects, "rejected", pcScan, <<"network">>))
        /\ UNCHANGED linkStatusCode
     \/ \E sc \in StatusCodes :
          /\ linkStatusCode' = sc
          /\ pcLink' = "await_body"
          /\ UNCHANGED <<effects, pc, status>>
  /\ UNCHANGED <<prog, inputs, githubToken, statusCode, body, linkBody>>
  /\ UNCHANGED <<pcScan, scanStatusCode, planFileList, readOK, idx, BranchVars>>

\* Mutant: a non-200 status is thrown instead of logged.
linkGitHubActionResult_ThrowOnStatus(e, sc, b) ==
  IF sc # 200
    THEN [effects |-> e, pcLink |-> "rejected", message |-> <<"HTTP">>]
  ELSE IF JSONparse(b).threw
    THEN [effects |-> e, pcLink |-> "rejected", message |-> JSONparse(b).message]
  ELSE IF b.success
    THEN [effects |-> e \o <<Info("link_ok")>>, pcLink |-> "resolved", message |-> <<>>]
  ELSE [effects |-> e \o <<Warning("link_failed")>>, pcLink |-> "resolved", message |-> <<>>]

\* Lines 54-66: outcome of linkGitHubAction for a response.
linkGitHubActionResult(e, sc, b) ==
  IF sc # 200
    THEN [effects |-> e \o <<Warning("link_http")>>, pcLink |-> "resolved", message |-> <<>>]
  ELSE IF JSONparse(b).threw
    THEN [effects |-> e, pcLink |-> "rejected", message |-> JSONparse(b).message]
  ELSE IF b.success
    THEN [effects |-> e \o <<Info("link_ok")>>, pcLink |-> "resolved", message |-> <<>>]
  ELSE [effects |-> e \o <<Warning("link_failed")>>, pcLink |-> "resolved", message |-> <<>>]

\* linkResponse.readBody() settles.
LinkBodySettled ==
  /\ prog = "postprocess" /\ pcLink = "await_body"
  /\ \/ /\ pcLink' = "rejected"
        /\ ApplyAwaitAll(AwaitAll(effects, "rejected", pcScan, <<"network">>))
        /\ UNCHANGED linkBody
     \/ \E b \in PlainBodies :
          LET r == linkGitHubActionResult(effects, linkStatusCode, b)
          IN /\ linkBody' = b
             /\ pcLink' = r.pcLink
             /\ ApplyAwaitAll(AwaitAll(r.effects, r.pcLink, pcScan, r.message))
  /\ UNCHANGED <<prog, inputs, githubToken, statusCode, body>>
  /\ UNCHANGED <<linkStatusCode, pcScan, scanStatusCode, planFileList, readOK, idx, BranchVars>>

InPlanScan == prog = "postprocess" /\ "plan" \in ScanFor(devbirdModeOf(inputs))
InBranchScan == prog = "postprocess" /\ "branches" \in ScanFor(devbirdModeOf(inputs))

\* Mutant: the catch sits outside the for loop, so one failure ends the loop.
PlanFileCatch_OutsideLoop(e) ==
  [effects |-> e \o <<Ev("warning", "plan_file_error", planFileList[idx], <<>>)>>,
   pcScan |-> "resolved", idx |-> Len(planFileList) + 1]

\* Mutant: after a failure the same file is attempted again.
PlanFileCatch_Retry(e) ==
  PlanLoop(e \o <<Ev("warning", "plan_file_error", planFileList[idx], <<>>)>>,
           planFileList, readOK, idx, PostDAT)

\* The per-file catch, then the rest of the loop.
PlanFileCatch(e) ==
  PlanLoop(e \o <<Ev("warning", "plan_file_error", planFileList[idx], <<>>)>>,
           planFileList, readOK, idx + 1, PostDAT)

ApplyScan(s) ==
  /\ pcScan' = s.pcScan
  /\ idx' = s.idx
  /\ ApplyAwaitAll(AwaitAll(s.effects, pcLink, s.pcScan, <<>>))

\* http.post of a plan upload settles.
PlanPostSettled ==
  /\ InPlanScan /\ pcScan = "await_post"
  /\ \/ /\ ApplyScan(PlanFileCatch(effects))
        /\ UNCHANGED scanStatusCode
     \/ \E sc \in StatusCodes :
          /\ scanStatusCode' = sc
          /\ pcScan' = "await_body"
          /\ UNCHANGED <<effects, pc, status, idx>>
  /\ UNCHANGED <<prog, inputs, githubToken, statusCode, body, linkBody>>
  /\ UNCHANGED <<pcLink, linkStatusCode, planFileList, readOK, BranchVars>>

\* Lines 183-203: log line produced by an upload response for file f.
uploadPlanResult(sc, b, f) ==
  IF sc # 200 THEN Ev("warning", "plan_http", f, <<>>)
  ELSE IF JSONparse(b).threw THEN Ev("warning", "plan_file_error", f, <<>>)
  ELSE IF b.success THEN Ev("info", "plan_ok", f, <<>>)
  ELSE Ev("warning", "plan_failed", f, <<>>)

\* planResponse.readBody() settles.
PlanBodySettled ==
  /\ InPlanScan /\ pcScan = "await_body"
  /\ \/ ApplyScan(PlanFileCatch(effects))
     \/ \E b \in PlainBodies :
          ApplyScan(PlanLoop(effects \o <<uploadPlanResult(scanStatusCode, b, planFileList[idx])>>,
                             planFileList, readOK, idx + 1, PostDAT))
  /\ UNCHANGED <<prog, inputs, githubToken, statusCode, body, linkBody>>
  /\ UNCHANGED <<pcLink, linkStatusCode, scanStatusCode, planFileList, readOK, BranchVars>>

\* http.post of RegisterBranchesByToken settles.
BranchPostSettled ==
  /\ InBranchScan /\ pcScan = "await_post"
  /\ \/ /\ ApplyScan([effects |-> effects \o <<Warning("branch_error")>>,
                      pcScan |-> "resolved", idx |-> idx])
        /\ branchError' = "network"
        /\ UNCHANGED scanStatusCode
     \/ \E sc \in StatusCodes :
          /\ scanStatusCode' = sc
          /\ pcScan' = "await_body"
          /\ UNCHANGED <<effects, pc, status, idx, branchError>>
  /\ UNCHANGED <<prog, inputs, githubToken, statusCode, body, linkBody>>
  /\ UNCHANGED <<pcLink, linkStatusCode, planFileList, readOK, listing, branches, branchBody>>

\* Mutant: a non-200 status is reported at info level.
registerBranchesResult_InfoOnStatus(sc, b, prs) ==
  IF sc # 200 THEN <<Info("branch_http")>>
  ELSE IF JSONparse(b).threw THEN <<Warning("branch_error")>>
  ELSE IF b.success
    THEN <<Info("branch_ok")>> \o (IF prs THEN <<Info("branch_prs")>> ELSE <<>>)
  ELSE <<Warning("branch_failed")>>

\* Lines 110-134: log lines produced by the register-branches response.
registerBranchesResult(sc, b, prs) ==
  IF sc # 200 THEN <<Warning("branch_http")>>
  ELSE IF JSONparse(b).threw THEN <<Warning("branch_error")>>
  ELSE IF b.success
    THEN <<Info("branch_ok")>> \o (IF prs THEN <<Info("branch_prs")>> ELSE <<>>)
  ELSE <<Warning("branch_failed")>>

\* branchResponse.readBody() settles.
BranchBodySettled ==
  /\ InBranchScan /\ pcScan = "await_body"
  /\ \/ /\ ApplyScan([effects |-> effects \o <<Warning("branch_error")>>,
                      pcScan |-> "resolved", idx |-> idx])
        /\ branchError' = "network"
        /\ UNCHANGED branchBody
     \/ \E b \in PlainBodies, prs \in BOOLEAN :
          /\ ApplyScan([effects |-> effects \o registerBranchesResult(scanStatusCode, b, prs),
                        pcScan |-> "resolved", idx |-> idx])
          /\ branchBody' = b
          /\ branchError' = IF scanStatusCode = 200 /\ JSONparse(b).threw
                              THEN "parse" ELSE branchError
  /\ UNCHANGED <<prog, inputs, githubToken, statusCode, body, linkBody>>
  /\ UNCHANGED <<pcLink, linkStatusCode, scanStatusCode, planFileList, readOK, listing, branches>>

Next ==
  \/ PrepareRun
  \/ PrepareOidcSettled
  \/ PrepareExchangePostSettled
  \/ PrepareExchangeBodySettled
  \/ PrepareLinkPostSettled
  \/ PrepareLinkBodySettled
  \/ PostprocessRun
  \/ LinkPostSettled
  \/ LinkBodySettled
  \/ PlanPostSettled
  \/ PlanBodySettled
  \/ BranchPostSettled
  \/ BranchBodySettled

Spec == Init /\ [][Next]_vars

(* ============================= claims ================================== *)
ModeRead == trim(inputs.devbird_mode)
Posts == {i \in 1..Len(effects) : effects[i].ev = "post"}
SetOutputs == {i \in 1..Len(effects) : effects[i].ev = "setOutput"}
SetFailedNames(name) ==
  \E i \in 1..Len(effects) :
    /\ effects[i].ev = "setFailed"
    /\ Len(effects[i].data) = 2
    /\ effects[i].data[2] = name
StaticOutputs == {"workflow_execution_token", "agent", "agent_model", "githubToken_obtained"}
LinkResultTags == {"link_http", "link_failed", "link_ok", "link_error"}
LinkResults == {i \in 1..Len(effects) : effects[i].what \in LinkResultTags}
PlanResultTags == {"plan_http", "plan_failed", "plan_ok", "plan_file_error"}
PlanResults(f) ==
  {i \in 1..Len(effects) : effects[i].what \in PlanResultTags /\ effects[i].file = f}

\* C1: in a postprocess run whose devbird_mode (as read by getInput) is
\* "plan", the branch listing and the RegisterBranchesByToken request never
\* happen; in every other postprocess run the plan-file listing, the plan
\* reads and the UploadTaskGraphPlanByToken request never happen; no run
\* performs both scans.
C1_ModeExclusivity ==
  prog = "postprocess" =>
    /\ ModeRead = <<"plan">> =>
         ~Did("exec", "git_branch") /\ ~Did("post", "branches")
    /\ ModeRead # <<"plan">> =>
         ~Did("exec", "ls") /\ ~Did("exec", "cat") /\ ~Did("post", "plan")
    /\ ~((Did("exec", "git_branch") \/ Did("post", "branches"))
         /\ (Did("exec", "ls") \/ Did("post", "plan")))

C1_Witness ==
  /\ prog = "postprocess" /\ pc = "done"
  /\ ModeRead = <<"plan">>
  /\ Did("post", "plan") /\ Did("post", "link")

\* C2: once the LinkGitHubActionByToken request has been sent, whatever the
\* call throws is caught: the promise of the link step never rejects and
\* the run never enters the failed state.
C2_LinkExceptionsCaught ==
  Did("post", "link") => (pcLink # "rejected" /\ status # "failed")

\* C3: when the link response has a non-200 status, or status 200 and a
\* parsed body whose success is false, the link step logs exactly one
\* result line, a warning, the run never fails, and it ends in success (in
\* postprocess with the scan completed).
C3_LinkRejectionIsWarning ==
  (/\ linkBody # NoBody
   /\ \/ linkStatusCode # 200
      \/ (linkBody.kind = "object" /\ ~linkBody.success))
  => /\ Cardinality(LinkResults) = 1
     /\ \A i \in LinkResults :
          effects[i].ev = "warning" /\ effects[i].what \in {"link_http", "link_failed"}
     /\ status # "failed"
     /\ ~Did("setFailed", "setFailed")
     /\ pc = "done" => (status = "success" /\ (prog = "postprocess" => pcScan = "resolved"))

C3_Witness ==
  /\ prog = "postprocess" /\ pc = "done"
  /\ linkBody.kind = "object" /\ ~linkBody.success /\ linkStatusCode = 200
  /\ Did("warning", "link_failed")
  /\ Did("post", "plan")

\* C4: in postprocess, an absent or empty devbird_workflow_execution_token
\* ends the run early, not failed and without any request; a present token
\* with delino_access_token absent ends the run failed.
C4_MissingTokenReturnsEarly ==
  (prog = "postprocess" /\ pc = "done") =>
    /\ inputs.devbird_workflow_execution_token = <<>> =>
         (status = "success" /\ ~Did("setFailed", "setFailed") /\ Posts = {})
    /\ (trim(inputs.devbird_workflow_execution_token) # <<>>
        /\ inputs.delino_access_token = <<>>) => status = "failed"

\* C5: in postprocess the terminal state is set only after both operations
\* started together have finished.
C5_TerminalAfterBoth ==
  (prog = "postprocess" /\ Did("post", "link") /\ status \in {"success", "failed"}) =>
    (pcLink \in {"resolved", "rejected"} /\ pcScan = "resolved")

\* C6 (as stated): for every required input that is missing, the run ends
\* failed with a message naming that input, with no request and no output.
RequiredInputs ==
  IF prog = "prepare" THEN {"autodev_workflow_execution_token", "agent"}
  ELSE IF prog = "postprocess" THEN {"delino_access_token"}
  ELSE {}

C6_EveryMissingInputNamed ==
  pc = "done" =>
    \A name \in RequiredInputs :
      inputs[name] = <<>> =>
        /\ status = "failed"
        /\ SetFailedNames(name)
        /\ Posts = {} /\ SetOutputs = {}

\* C6 (amended): when a required input is missing the run ends failed, and
\* the only thing it has done is setFailed with the message naming the first
\* missing required input in reading order (prepare: the workflow token,
\* then agent; postprocess: delino_access_token, given a workflow token that
\* is supplied and not blank).
C6_FirstMissingInputNamed ==
  pc = "done" =>
    /\ (prog = "prepare" /\ inputs.autodev_workflow_execution_token = <<>>) =>
         (status = "failed" /\ effects = <<SetFailed(<<"Input required and not supplied: ",
                                                       "autodev_workflow_execution_token">>)>>)
    /\ (prog = "prepare" /\ inputs.autodev_workflow_execution_token # <<>>
        /\ inputs.agent = <<>>) =>
         (status = "failed" /\ effects = <<SetFailed(<<"Input required and not supplied: ",
                                                       "agent">>)>>)
    /\ (prog = "postprocess" /\ trim(inputs.devbird_workflow_execution_token) # <<>>
        /\ inputs.delino_access_token = <<>>) =>
         (status = "failed" /\ effects = <<SetFailed(<<"Input required and not supplied: ",
                                                       "delino_access_token">>)>>)

C6_Witness ==
  /\ prog = "prepare" /\ pc = "done" /\ status = "failed"
  /\ inputs.autodev_workflow_execution_token # <<>>
  /\ inputs.agent = <<>>
  /\ SetFailedNames("agent")

LinkSkippedAndPublished ==
  /\ ~Did("post", "link")
  /\ status = "success"
  /\ \A o \in StaticOutputs : Did("setOutput", o)

\* C7 (as stated): in prepare, with agent supplied, an absent or empty
\* workflow execution token skips the link request and the run publishes
\* its outputs and ends in success.
C7_AbsentTokenSkipsLink ==
  (/\ prog = "prepare" /\ pc = "done"
   /\ inputs.agent # <<>>
   /\ trim(inputs.autodev_workflow_execution_token) = <<>>)
  => LinkSkippedAndPublished

\* C7 (amended): in prepare, with agent supplied, a workflow execution token
\* that is supplied but blank (only whitespace) skips the link request and
\* the run publishes its outputs and ends in success.
C7_BlankTokenSkipsLink ==
  (/\ prog = "prepare" /\ pc = "done"
   /\ inputs.agent # <<>>
   /\ inputs.autodev_workflow_execution_token # <<>>
   /\ trim(inputs.autodev_workflow_execution_token) = <<>>)
  => LinkSkippedAndPublished

C7_Witness ==
  /\ prog = "prepare" /\ pc = "done" /\ status = "success"
  /\ inputs.autodev_workflow_execution_token = <<Space>>
  /\ inputs.delino_access_token = <<"t">>
  /\ Did("setOutput", "githubToken_obtained")

ExchangeGranted ==
  /\ statusCode = 200
  /\ body.kind = "object" /\ body.success /\ body.githubToken # <<>>

\* C8: for every exchange response other than 200 with success and a
\* non-empty githubToken, a warning is logged, githubToken_obtained is
\* published as "false", github_token is not published, and prepare goes
\* on (outputs published, not failed).
C8_ExchangeFailureWarns ==
  (prog = "prepare" /\ body # NoBody /\ ~ExchangeGranted) =>
    /\ Did("warning", "exchange_http") \/ Did("warning", "exchange_failed")
    /\ \E i \in 1..Len(effects) : effects[i] = SetOutput("githubToken_obtained", <<"false">>)
    /\ ~Did("setOutput", "github_token")
    /\ \A o \in StaticOutputs : Did("setOutput", o)
    /\ status # "failed"

\* C9: in prepare with both required inputs supplied, whatever the OIDC
\* request, the exchange and the link call do, setFailed is never called,
\* the run ends in success with each of the four static outputs published
\* once, and they are published before the link request is sent.
C9_PrepareAlwaysSucceeds ==
  (/\ prog = "prepare"
   /\ inputs.autodev_workflow_execution_token # <<>>
   /\ inputs.agent # <<>>)
  => /\ status # "failed" /\ ~Did("setFailed", "setFailed")
     /\ pc = "done" =>
          (status = "success" /\ \A o \in StaticOutputs : Count("setOutput", o) = 1)
     /\ Did("post", "link") =>
          \A o \in StaticOutputs :
            Did("setOutput", o) /\ FirstIdx("setOutput", o) < FirstIdx("post", "link")

C9_Witness ==
  /\ prog = "prepare" /\ pc = "done" /\ status = "success"
  /\ Did("warning", "exchange_http")
  /\ Did("warning", "link_error")

\* C10: in plan mode, once uploadPlanFiles has finished over a listed set
\* of files, every file was read exactly once, uploaded exactly once if its
\* read succeeded (never otherwise), and has exactly one result line; while
\* it runs no file is read or uploaded twice; and a run that got as far as
\* listing the plan files is failed only if the link step rejected.
C10_PlanFileIsolation ==
  (prog = "postprocess" /\ ModeRead = <<"plan">>) =>
    /\ \A f \in 1..MaxPlanFiles + 1 :
         CountFile("exec", "cat", f) <= 1 /\ CountFile("post", "plan", f) <= 1
    /\ pcScan = "resolved" =>
         \A k \in 1..Len(planFileList) :
           /\ CountFile("exec", "cat", planFileList[k]) = 1
           /\ CountFile("post", "plan", planFileList[k]) = (IF readOK[k] THEN 1 ELSE 0)
           /\ Cardinality(PlanResults(planFileList[k])) = 1
    /\ (status = "failed" /\ Did("exec", "ls")) => pcLink = "rejected"

C10_Witness ==
  /\ prog = "postprocess" /\ pcScan = "resolved" /\ status = "success"
  /\ Len(planFileList) = MaxPlanFiles
  /\ CountFile("warning", "plan_file_error", 1) = 1
  /\ CountFile("info", "plan_ok", MaxPlanFiles) = 1
LogLines == {i \in 1..Len(effects) : effects[i].ev \in {"info", "warning", "debug"}}

\* C11: in prepare the value of the response's githubToken field never
\* appears in a log line, and when the credential is obtained setSecret
\* comes before exportVariable and before the github_token output.
C11_CredentialNeverLogged ==
  prog = "prepare" =>
    /\ body.githubToken # <<>> =>
         \A i \in LogLines : effects[i].data # body.githubToken
    /\ Did("setOutput", "github_token") =>
         /\ Did("setSecret", "githubToken")
         /\ FirstIdx("setSecret", "githubToken") < FirstIdx("exportVariable", "githubToken")
         /\ FirstIdx("setSecret", "githubToken") < FirstIdx("setOutput", "github_token")
BranchResultTags == {"branch_http", "branch_failed", "branch_ok", "branch_error"}
BranchResults == {i \in 1..Len(effects) : effects[i].what \in BranchResultTags}
BranchStepFailed ==
  \/ branchError # "none"
  \/ (branchBody # NoBody /\ scanStatusCode # 200)
  \/ (branchBody.kind = "object" /\ ~branchBody.success)

BaseRead == defaultBaseBranchOf(trim(inputs.base_branch))
RECURSIVE RemoveEqual(_, _)
RemoveEqual(lines, b) ==
  IF lines = <<>> THEN <<>>
  ELSE IF Head(lines) = b THEN RemoveEqual(Tail(lines), b)
  ELSE <<Head(lines)>> \o RemoveEqual(Tail(lines), b)

\* C13: the branch list sent by detectBranches is the listing with the
\* entries equal to the base branch ("main" when unset) removed, cut to its
\* first 20 entries, trimmed, empty entries dropped, in listing order; it
\* never contains the base branch, has at most 20 entries, and has 20 when at
\* least 20 non-base branches exist.
C13_BranchSetExact ==
  (prog = "postprocess" /\ Did("post", "branches")) =>
    /\ branches = trimAndFilter(head(RemoveEqual(listing, BaseRead), HeadLimit))
    /\ \A k \in 1..Len(branches) : branches[k] # BaseRead
    /\ Len(branches) <= HeadLimit
    /\ Len(RemoveEqual(listing, BaseRead)) >= HeadLimit => Len(branches) = HeadLimit

\* The same statement restricted to base branches without a "." holds.
BranchSetExactWithoutDot ==
  ("." \notin {BaseRead[k] : k \in 1..Len(BaseRead)}) => C13_BranchSetExact
\* C14: in one run the exchange, link and register-branches requests are
\* each sent at most once, and the upload request at most once per plan
\* file, whatever the responses or failures.
C14_NoRetries ==
  /\ Count("post", "exchange") <= 1
  /\ Count("post", "link") <= 1
  /\ Count("post", "branches") <= 1
  /\ \A f \in 1..MaxPlanFiles + 1 : CountFile("post", "plan", f) <= 1
  /\ Cardinality({i \in Posts : effects[i].what = "plan"}) <= Len(planFileList)

C14_Witness ==
  /\ prog = "postprocess" /\ pc = "done" /\ pcScan = "resolved"
  /\ pcLink = "rejected"
  /\ CountFile("warning", "plan_file_error", 1) = 1
  /\ CountFile("post", "plan", 1) = 1
  /\ Count("post", "link") = 1
\* C15: in a prepare run that reached output publication, the link request
\* is sent exactly when the workflow token and delino_access_token (as read,
\* i.e. trimmed) are both non-empty, whatever the exchange did; its bearer
\* is always delino_access_token and never the exchanged credential; a run
\* with an exchanged credential but no delino_access_token sends no link
\* request.
C15_LinkNeedsAccessToken ==
  (prog = "prepare" /\ Did("setOutput", "githubToken_obtained")) =>
    /\ Did("post", "link") <=>
         (/\ trim(inputs.autodev_workflow_execution_token) # <<>>
          /\ trim(inputs.delino_access_token) # <<>>)
    /\ \A i \in Posts :
         effects[i].what = "link" =>
           /\ effects[i].data = trim(inputs.delino_access_token)
           /\ effects[i].data # <<>>
           /\ githubToken # <<>> => effects[i].data # githubToken
    /\ (githubToken # <<>> /\ trim(inputs.delino_access_token) = <<>>) =>
         ~Did("post", "link")

C15_Witness ==
  /\ prog = "prepare" /\ pc = "done" /\ status = "success"
  /\ githubToken # <<>>
  /\ trim(inputs.autodev_workflow_execution_token) # <<>>
  /\ inputs.delino_access_token = <<>>
  /\ ~Did("post", "link")
ObtainedPublishedAs(v) ==
  \E i \in 1..Len(effects) : effects[i] = SetOutput("githubToken_obtained", <<v>>)

\* C16: in every prepare run that reached output publication,
\* githubToken_obtained is "true" exactly when the github_token output was
\* published and the githubToken variable exported (both carrying the
\* response's non-empty githubToken), which is exactly when the exchange
\* answered 200 with success and a non-empty githubToken; otherwise it is
\* "false" and neither channel was written.
C16_CredentialChannelsAgree ==
  (prog = "prepare" /\ Did("setOutput", "githubToken_obtained")) =>
    /\ ObtainedPublishedAs("true") <=> ~ObtainedPublishedAs("false")
    /\ ObtainedPublishedAs("true") <=>
         (Did("setOutput", "github_token") /\ Did("exportVariable", "githubToken"))
    /\ ObtainedPublishedAs("true") <=> ExchangeGranted
    /\ ObtainedPublishedAs("false") =>
         (~Did("setOutput", "github_token") /\ ~Did("exportVariable", "githubToken"))
    /\ \A i \in 1..Len(effects) :
         (effects[i].ev \in {"setOutput", "exportVariable"}
          /\ effects[i].what \in {"github_token", "githubToken"}) =>
           (effects[i].data = body.githubToken /\ effects[i].data # <<>>)

C16_Witness ==
  /\ prog = "prepare" /\ pc = "done"
  /\ ExchangeGranted
  /\ ObtainedPublishedAs("true")
  /\ Did("setOutput", "github_token")
\* C17: in a develop run that started branch detection, exactly one
\* RegisterBranchesByToken request is sent when the listing command
\* succeeded, also for an empty branch list, and none when execSync threw;
\* the link request is sent in both cases.
C17_RegisterFollowsListing ==
  (prog = "postprocess" /\ Did("exec", "git_branch")) =>
    /\ branchError = "exec" => Count("post", "branches") = 0
    /\ branchError # "exec" => Count("post", "branches") = 1
    /\ Count("post", "link") = 1
    /\ FirstIdx("post", "link") < FirstIdx("exec", "git_branch")

C17_Witness ==
  /\ prog = "postprocess" /\ pc = "done"
  /\ branchError = "none" /\ branches = <<>>
  /\ Count("post", "branches") = 1
  /\ Count("post", "link") = 1
====
